---- MODULE Spec2Model ----
(***************************************************************************)
(* Snapshot rotation (scripts/snapshot_rotate.py): the naming codec, the   *)
(* schedule policy, the classifier and the fleet pass of main(), stepped   *)
(* one hypervisor call at a time.                                          *)
(*                                                                         *)
(* Snapshot names are strings and are formatted, split and parsed          *)
(* character by character.  A datetime is the number of seconds since      *)
(* 1970-01-01T00:00:00 (naive UTC, microseconds dropped).                  *)
(***************************************************************************)
EXTENDS Integers, Sequences, FiniteSets, TLC

(***************************************************************************)
(* Strings                                                                 *)
(***************************************************************************)
Char(s, p) == SubSeq(s, p, p)

DigitChars == <<"0", "1", "2", "3", "4", "5", "6", "7", "8", "9">>

IsDigit(c) == \E k \in 1..10 : DigitChars[k] = c

DigitVal(c) == (CHOOSE k \in 1..10 : DigitChars[k] = c) - 1

\* str.startswith
startswith(s, p) == Len(s) >= Len(p) /\ SubSeq(s, 1, Len(p)) = p

RECURSIVE SplitFrom(_, _, _, _)
SplitFrom(s, p, cur, acc) ==
    IF p > Len(s) THEN Append(acc, cur)
    ELSE IF Char(s, p) = "-" THEN SplitFrom(s, p + 1, "", Append(acc, cur))
    ELSE SplitFrom(s, p + 1, cur \o Char(s, p), acc)

\* name.split("-")
split(s) == SplitFrom(s, 1, "", <<>>)

RECURSIVE join(_)
\* "-".join(parts)
join(parts) ==
    IF Len(parts) = 0 THEN ""
    ELSE IF Len(parts) = 1 THEN parts[1]
    ELSE parts[1] \o "-" \o join(Tail(parts))

\* value of the len digits of s starting at p, -1 when they are not all there
NumAt(s, p, len) ==
    IF p + len - 1 > Len(s) THEN -1
    ELSE IF \E k \in p..(p + len - 1) : ~IsDigit(Char(s, k)) THEN -1
    ELSE IF len = 1 THEN DigitVal(Char(s, p))
    ELSE IF len = 2 THEN 10 * DigitVal(Char(s, p)) + DigitVal(Char(s, p + 1))
    ELSE 1000 * DigitVal(Char(s, p)) + 100 * DigitVal(Char(s, p + 1))
         + 10 * DigitVal(Char(s, p + 2)) + DigitVal(Char(s, p + 3))

\* zero-padded decimal, as the %m %d %H %M and %Y directives print it
Pad2(n) == DigitChars[(n \div 10) + 1] \o DigitChars[(n % 10) + 1]

Pad4(n) == Pad2(n \div 100) \o Pad2(n % 100)

(***************************************************************************)
(* datetime: proleptic Gregorian calendar over seconds since the epoch     *)
(***************************************************************************)
SecondsPerDay == 86400

IsLeap(y) == (y % 4 = 0) /\ ((y % 100 # 0) \/ (y % 400 = 0))

DaysInMonth(y, m) ==
    IF m = 2 THEN (IF IsLeap(y) THEN 29 ELSE 28)
    ELSE IF m \in {4, 6, 9, 11} THEN 30 ELSE 31

\* days from 1970-01-01 to y-m-d
DaysFromCivil(y, m, d) ==
    LET yy  == IF m <= 2 THEN y - 1 ELSE y
        era == yy \div 400
        yoe == yy - era * 400
        mp  == IF m > 2 THEN m - 3 ELSE m + 9
        doy == (153 * mp + 2) \div 5 + d - 1
        doe == yoe * 365 + yoe \div 4 - yoe \div 100 + doy
    IN  era * 146097 + doe - 719468

\* <<year, month, day>> of the day z days after 1970-01-01
CivilFromDays(z) ==
    LET zz  == z + 719468
        era == zz \div 146097
        doe == zz - era * 146097
        yoe == (doe - doe \div 1460 + doe \div 36524 - doe \div 146096) \div 365
        doy == doe - (365 * yoe + yoe \div 4 - yoe \div 100)
        mp  == (5 * doy + 2) \div 153
        d   == doy - (153 * mp + 2) \div 5 + 1
        m   == IF mp < 10 THEN mp + 3 ELSE mp - 9
        y   == yoe + era * 400 + (IF m <= 2 THEN 1 ELSE 0)
    IN  <<y, m, d>>

\* datetime(y, m, d, hh, mm, ss)
MkDatetime(y, m, d, hh, mm, ss) ==
    DaysFromCivil(y, m, d) * SecondsPerDay + hh * 3600 + mm * 60 + ss

Year(t)   == CivilFromDays(t \div SecondsPerDay)[1]
Month(t)  == CivilFromDays(t \div SecondsPerDay)[2]
Day(t)    == CivilFromDays(t \div SecondsPerDay)[3]
Hour(t)   == (t % SecondsPerDay) \div 3600
Minute(t) == (t % 3600) \div 60

\* datetime.weekday(): Monday is 0; 1970-01-01 was a Thursday
Weekday(t) == ((t \div SecondsPerDay) + 3) % 7

\* timedelta(days=d, weeks=w)
timedelta(days, weeks) == (days + 7 * weeks) * SecondsPerDay

\* the result of a function that returns None
NoneVal == -1

(***************************************************************************)
(* datetime.strptime for the two formats the script uses.  Each directive  *)
(* is the regular expression of CPython's _strptime, its alternatives in   *)
(* their order: two digits before one digit, and for %d " [1-9]" last.     *)
(* The first choice (leftmost alternatives first) under which the whole    *)
(* pattern matches a prefix of the string is the match; unconverted data   *)
(* after it, year 0 or a day beyond the month's length is a ValueError,    *)
(* reported here as NoneVal.                                               *)
(***************************************************************************)
\* length of option o of a directive ("d" has a third option)
OptLen(dir, o) == IF o = 2 THEN 1 ELSE 2

\* value matched by option o of directive dir at position p, -1 if no match
OptVal(dir, o, s, p) ==
    LET two == NumAt(s, p, 2)
        one == NumAt(s, p, 1)
    IN  CASE dir = "m" /\ o = 1 -> IF two \in 1..12 THEN two ELSE -1
          [] dir = "m" /\ o = 2 -> IF one \in 1..9 THEN one ELSE -1
          [] dir = "d" /\ o = 1 -> IF two \in 1..31 THEN two ELSE -1
          [] dir = "d" /\ o = 2 -> IF one \in 1..9 THEN one ELSE -1
          [] dir = "d" /\ o = 3 ->
                IF p + 1 <= Len(s) /\ Char(s, p) = " " /\ NumAt(s, p + 1, 1) \in 1..9
                THEN NumAt(s, p + 1, 1) ELSE -1
          [] dir = "H" /\ o = 1 -> IF two \in 0..23 THEN two ELSE -1
          [] dir = "H" /\ o = 2 -> one
          [] dir = "M" /\ o = 1 -> IF two \in 0..59 THEN two ELSE -1
          [] dir = "M" /\ o = 2 -> one
          [] OTHER -> -1

\* the date, or NoneVal, that datetime(...) makes of matched fields
CheckedDatetime(y, m, d, hh, mm) ==
    IF y < 1 \/ d > DaysInMonth(y, m) THEN NoneVal
    ELSE MkDatetime(y, m, d, hh, mm, 0)

\* datetime.strptime(stamp, "%Y%m%d")
strptime_day(stamp) ==
    LET y == NumAt(stamp, 1, 4)
        Choices == {c \in (1..2) \X (1..3) :
                      /\ OptVal("m", c[1], stamp, 5) >= 0
                      /\ OptVal("d", c[2], stamp, 5 + OptLen("m", c[1])) >= 0}
    IN  IF y < 0 \/ Choices = {} THEN NoneVal
        ELSE LET c == CHOOSE b \in Choices :
                        \A o \in Choices : 10 * b[1] + b[2] <= 10 * o[1] + o[2]
                 pd   == 5 + OptLen("m", c[1])
                 pend == pd + OptLen("d", c[2])
             IN  IF pend # Len(stamp) + 1 THEN NoneVal
                 ELSE CheckedDatetime(y, OptVal("m", c[1], stamp, 5),
                                      OptVal("d", c[2], stamp, pd), 0, 0)

\* datetime.strptime(stamp, "%Y%m%d-%H%M")
strptime_minute(stamp) ==
    LET y == NumAt(stamp, 1, 4)
        PosD(c) == 5 + OptLen("m", c[1])
        PosH(c) == PosD(c) + OptLen("d", c[2]) + 1
        PosM(c) == PosH(c) + OptLen("H", c[3])
        Choices == {c \in (1..2) \X (1..3) \X (1..2) \X (1..2) :
                      /\ OptVal("m", c[1], stamp, 5) >= 0
                      /\ OptVal("d", c[2], stamp, PosD(c)) >= 0
                      /\ PosH(c) - 1 <= Len(stamp)
                      /\ Char(stamp, PosH(c) - 1) = "-"
                      /\ OptVal("H", c[3], stamp, PosH(c)) >= 0
                      /\ OptVal("M", c[4], stamp, PosM(c)) >= 0}
        Rank(c) == 1000 * c[1] + 100 * c[2] + 10 * c[3] + c[4]
    IN  IF y < 0 \/ Choices = {} THEN NoneVal
        ELSE LET c == CHOOSE b \in Choices : \A o \in Choices : Rank(b) <= Rank(o)
                 pend == PosM(c) + OptLen("M", c[4])
             IN  IF pend # Len(stamp) + 1 THEN NoneVal
                 ELSE CheckedDatetime(y, OptVal("m", c[1], stamp, 5),
                                      OptVal("d", c[2], stamp, PosD(c)),
                                      OptVal("H", c[3], stamp, PosH(c)),
                                      OptVal("M", c[4], stamp, PosM(c)))

(***************************************************************************)
(* Naming codec                                                            *)
(***************************************************************************)
\* FormatDay with the day before the month (%Y%d%m)
FormatDayDayFirst(t) == Pad4(Year(t)) \o Pad2(Day(t)) \o Pad2(Month(t))

\* f"{now:%Y%m%d}"
FormatDay(t) == Pad4(Year(t)) \o Pad2(Month(t)) \o Pad2(Day(t))

\* f"{now:%Y%m%d-%H%M}"
FormatMinute(t) == FormatDay(t) \o "-" \o Pad2(Hour(t)) \o Pad2(Minute(t))

\* tag_snapshot_name with the day stamp used for hourly as well
tag_snapshot_name_hourly_by_day(prefix, utcnow) ==
    CASE prefix = "hourly"  -> "auto-hourly-" \o FormatDay(utcnow)
      [] prefix = "daily"   -> "auto-daily-" \o FormatDay(utcnow)
      [] prefix = "weekly"  -> "auto-weekly-" \o FormatDay(utcnow)
      [] prefix = "monthly" -> "auto-monthly-" \o FormatDay(utcnow)
      [] OTHER              -> "ValueError"

\* tag_snapshot_name with the minute stamp of hourly used for every cadence
tag_snapshot_name_minute_keyed(prefix, utcnow) ==
    CASE prefix = "hourly"  -> "auto-hourly-" \o FormatMinute(utcnow)
      [] prefix = "daily"   -> "auto-daily-" \o FormatMinute(utcnow)
      [] prefix = "weekly"  -> "auto-weekly-" \o FormatMinute(utcnow)
      [] prefix = "monthly" -> "auto-monthly-" \o FormatMinute(utcnow)
      [] OTHER              -> "ValueError"

\* tag_snapshot_name(prefix), utcnow being the wall clock when it is called
tag_snapshot_name(prefix, utcnow) ==
    CASE prefix = "hourly"  -> "auto-hourly-" \o FormatMinute(utcnow)
      [] prefix = "daily"   -> "auto-daily-" \o FormatDay(utcnow)
      [] prefix = "weekly"  -> "auto-weekly-" \o FormatDay(utcnow)
      [] prefix = "monthly" -> "auto-monthly-" \o FormatDay(utcnow)
      [] OTHER              -> "ValueError"

parse_snapshot_timestamp(name) ==
    IF ~startswith(name, "auto-") THEN NoneVal
    ELSE LET parts == split(name) IN
         IF Len(parts) < 3 THEN NoneVal
         ELSE LET cadence == parts[2]
                  stamp   == join(SubSeq(parts, 3, Len(parts)))
              IN  IF cadence = "hourly" THEN strptime_minute(stamp)
                  ELSE strptime_day(stamp)

(***************************************************************************)
(* Schedule policy and classifier                                          *)
(***************************************************************************)
Cadences == {"hourly", "daily", "weekly", "monthly"}

\* should_create with Monday taken as day 1 of the week (isoweekday)
should_create_isoweekday(t) ==
    LET c1 == <<"hourly">>
        c2 == IF Minute(t) = 0 THEN Append(c1, "daily") ELSE c1
        c3 == IF Weekday(t) = 1 /\ Hour(t) = 0 /\ Minute(t) = 0
              THEN Append(c2, "weekly") ELSE c2
        c4 == IF Day(t) = 1 /\ Hour(t) = 0 /\ Minute(t) = 0
              THEN Append(c3, "monthly") ELSE c3
    IN  c4

\* should_create with daily due through the whole first hour of the day
\* (the hour tested where the minute is)
should_create_daily_by_hour(t) ==
    LET c1 == <<"hourly">>
        c2 == IF Hour(t) = 0 THEN Append(c1, "daily") ELSE c1
        c3 == IF Weekday(t) = 0 /\ Hour(t) = 0 /\ Minute(t) = 0
              THEN Append(c2, "weekly") ELSE c2
        c4 == IF Day(t) = 1 /\ Hour(t) = 0 /\ Minute(t) = 0
              THEN Append(c3, "monthly") ELSE c3
    IN  c4

should_create(t) ==
    LET c1 == <<"hourly">>
        c2 == IF Minute(t) = 0 THEN Append(c1, "daily") ELSE c1
        c3 == IF Weekday(t) = 0 /\ Hour(t) = 0 /\ Minute(t) = 0
              THEN Append(c2, "weekly") ELSE c2
        c4 == IF Day(t) = 1 /\ Hour(t) = 0 /\ Minute(t) = 0
              THEN Append(c3, "monthly") ELSE c3
    IN  c4

\* retention_cutoffs with the weekly window given in days (days=8)
retention_cutoffs_weekly_in_days(t) ==
    [c \in Cadences |->
        CASE c = "hourly"  -> t - timedelta(3, 0)
          [] c = "daily"   -> t - timedelta(14, 0)
          [] c = "weekly"  -> t - timedelta(8, 0)
          [] c = "monthly" -> t - timedelta(730, 0)]

retention_cutoffs(t) ==
    [c \in Cadences |->
        CASE c = "hourly"  -> t - timedelta(3, 0)
          [] c = "daily"   -> t - timedelta(14, 0)
          [] c = "weekly"  -> t - timedelta(0, 8)
          [] c = "monthly" -> t - timedelta(730, 0)]

\* the bucket a snapshot name is appended to, "" when it is passed over
BucketOf(name) ==
    IF ~startswith(name, "auto-") THEN ""
    ELSE LET parts == split(name) IN
         IF Len(parts) < 3 THEN ""
         ELSE IF parts[2] \in Cadences THEN parts[2] ELSE ""

RECURSIVE SelectBucket(_, _)
SelectBucket(snaps, c) ==
    IF snaps = <<>> THEN <<>>
    ELSE IF BucketOf(Head(snaps)) = c
         THEN <<Head(snaps)>> \o SelectBucket(Tail(snaps), c)
         ELSE SelectBucket(Tail(snaps), c)

filter_snapshots(snaps) == [c \in Cadences |-> SelectBucket(snaps, c)]

\* iteration order of grouped.items(): the insertion order of the dict
GroupedOrder == <<"hourly", "daily", "weekly", "monthly">>

(***************************************************************************)
(* The fleet and the wall clock                                            *)
(***************************************************************************)
\* the cluster's inventory, as cluster.resources.get(type="vm") returns it
vms == << [vmid |-> "100", node |-> "pve1", template |-> 0],
          [vmid |-> "101", node |-> "pve1", template |-> 1],
          [vmid |-> "102", node |-> "",     template |-> 0],
          [vmid |-> "103", node |-> "pve2", template |-> 0] >>

VmIds == {vms[k].vmid : k \in 1..Len(vms)}

\* the snapshots each workload holds before the first pass
InitialStore ==
    [v \in VmIds |->
        CASE v = "100" -> << "auto-hourly-20260528-2359", "manual-backup",
                             "auto-hourly-20260529-0000", "auto-yearly-20200101",
                             "auto-daily-20260517", "auto-daily-2020115" >>
          [] v = "101" -> << "auto-daily-20200101" >>
          [] v = "102" -> << "auto-hourly-20200101-0000" >>
          [] v = "103" -> << "auto-daily-20260518", "auto-daily-20200101-0000",
                             "auto-weekly-20260330", "auto-hourly-20200101",
                             "auto-monthly-20240601", "auto-daily" >>]

\* the instants at which the wall clock is read: in the last minute of
\* Sunday 2026-05-31 and in the first two minutes of Monday 2026-06-01
ClockPoints ==
    { MkDatetime(2026, 5, 31, 23, 59, 30),
      MkDatetime(2026, 6, 1, 0, 0, 0),
      MkDatetime(2026, 6, 1, 0, 1, 0) }

\* invocations of the script in one behaviour
MaxPasses == 2

\* advances of the wall clock in one behaviour
MaxTicks == 1

\* hypervisor calls that fail for a reason of the hypervisor's own (timeout,
\* network fault) in one behaviour
MaxFaults == 1

\* invocations by the scheduler in one behaviour: one more than there are
\* faults and names held beforehand (one) to end them early
RetryPasses == MaxFaults + 2

\* the wall clock before the first invocation by the scheduler
RetryStart == MkDatetime(2026, 5, 28, 23, 59, 30)

\* the instants at which the scheduler invokes the script: each minute from
\* 2026-05-29T00:00:00
RetryInstants ==
    { RetryStart - (RetryStart % 60) + 60 * k : k \in 1..RetryPasses }

SeqRange(q) == {q[k] : k \in 1..Len(q)}

\* the names the workloads hold at first and the names a pass can create
NameUniverse ==
    UNION {SeqRange(InitialStore[v]) : v \in VmIds}
    \cup {tag_snapshot_name(c, t) : c \in Cadences, t \in ClockPoints \cup RetryInstants}

\* parse_snapshot_timestamp of each of these names, computed once
TimestampTable == [n \in NameUniverse |-> parse_snapshot_timestamp(n)]

\* ts of prune_snapshots, line 95
Timestamp(name) ==
    IF name \in NameUniverse THEN TimestampTable[name]
    ELSE parse_snapshot_timestamp(name)

VARIABLES
    clock,               \* datetime.utcnow()
    store,               \* hypervisor: vmid -> names of its snapshots
    pc,                  \* position of the process
    dry_run,             \* args.dry_run
    now,                 \* main: now
    cadences_to_create,  \* main: cadences_to_create
    cutoffs,             \* main: cutoffs
    i,                   \* main: index of vm in vms
    grouped,             \* main: grouped
    ci,                  \* index of cadence in cadences_to_create
    todo,                \* names the pruning loops have yet to delete
    exit_code,           \* exit status of the process, -1 while it runs
    calls,               \* hypervisor calls issued by the current invocation
    printed,             \* lines printed by the current invocation
    listed,              \* what snapshot.get() returned for each vm
    prev,                \* the preceding invocation
    passes,              \* invocations so far
    ticks,               \* clock advances so far
    faults               \* hypervisor faults so far

vars == <<clock, store, pc, dry_run, now, cadences_to_create, cutoffs, i,
          grouped, ci, todo, exit_code, calls, printed, listed, prev, passes,
          ticks, faults>>

NoListing == [v \in VmIds |-> [st |-> "none", snaps |-> <<>>]]

NoGroups == [c \in Cadences |-> <<>>]

NoCutoffs == [c \in Cadences |-> 0]

\* the create and delete actions an invocation has issued (live) or
\* announced (dry-run)
ActionsOf(isDry, cs, ps) ==
    IF isDry
    THEN {<<"create", ps[k].vmid, ps[k].name>> :
              k \in {n \in 1..Len(ps) : ps[n].msg = "dry-run create"}}
         \cup {<<"delete", ps[k].vmid, ps[k].name>> :
              k \in {n \in 1..Len(ps) : ps[n].msg = "dry-run delete"}}
    ELSE {<<cs[k].op, cs[k].vmid, cs[k].name>> :
              k \in {n \in 1..Len(cs) : cs[n].op \in {"create", "delete"}}}

\* the state before the first invocation, the wall clock apart
InitRest ==
    /\ store = InitialStore
    /\ pc = "idle"
    /\ dry_run = FALSE
    /\ now = 0
    /\ cadences_to_create = <<>>
    /\ cutoffs = NoCutoffs
    /\ i = 1
    /\ grouped = NoGroups
    /\ ci = 1
    /\ todo = <<>>
    /\ exit_code = -1
    /\ calls = <<>>
    /\ printed = <<>>
    /\ listed = NoListing
    /\ prev = [valid |-> FALSE, done |-> FALSE, dry |-> FALSE, now |-> 0,
               listed |-> NoListing, acts |-> {}, store |-> InitialStore]
    /\ passes = 0
    /\ ticks = 0
    /\ faults = 0

Init == clock \in ClockPoints /\ InitRest

Stopped == pc \in {"idle", "done", "crashed", "fatal"}

Startable == Stopped /\ passes < MaxPasses

\* The wall clock advances.  The script reads it in main (line 124) and in
\* tag_snapshot_name (line 29) only, so an advance is taken where one of the
\* two reads is ahead.
Tick ==
    /\ ticks < MaxTicks
    /\ Startable \/ pc = "create"
    /\ \E t \in ClockPoints :
          /\ t > clock
          /\ \A u \in ClockPoints : u > clock => t <= u
          /\ clock' = t
    /\ ticks' = ticks + 1
    /\ UNCHANGED <<store, pc, dry_run, now, cadences_to_create, cutoffs, i,
                   grouped, ci, todo, exit_code, calls, printed, listed, prev,
                   passes, faults>>

\* what is kept of an invocation when the scheduler starts the next one
Summary ==
    [valid |-> pc \in {"done", "crashed"}, done |-> pc = "done", dry |-> dry_run,
     now |-> now, listed |-> listed, acts |-> ActionsOf(dry_run, calls, printed),
     store |-> store]

\* main, lines 116-128: load_config, connect_proxmox or the inventory listing
\* raises; nothing catches it
StartFail ==
    /\ Startable
    /\ faults < MaxFaults
    /\ faults' = faults + 1
    /\ \E d \in BOOLEAN : dry_run' = d
    /\ passes' = passes + 1
    /\ prev' = Summary
    /\ pc' = "fatal"
    /\ exit_code' = 1
    /\ now' = 0
    /\ cadences_to_create' = <<>>
    /\ cutoffs' = NoCutoffs
    /\ i' = 1
    /\ grouped' = NoGroups
    /\ ci' = 1
    /\ todo' = <<>>
    /\ calls' = <<>>
    /\ printed' = <<>>
    /\ listed' = NoListing
    /\ UNCHANGED <<clock, store, ticks>>

\* main, lines 116-128: the plan is computed and the inventory is listed
StartPass ==
    /\ Startable
    /\ \E d \in BOOLEAN : dry_run' = d
    /\ passes' = passes + 1
    /\ prev' = Summary
    /\ now' = clock
    /\ cadences_to_create' = should_create(clock)
    /\ cutoffs' = retention_cutoffs(clock)
    /\ pc' = "vm_loop"
    /\ i' = 1
    /\ exit_code' = -1
    /\ grouped' = NoGroups
    /\ ci' = 1
    /\ todo' = <<>>
    /\ calls' = <<>>
    /\ printed' = <<>>
    /\ listed' = NoListing
    /\ UNCHANGED <<clock, store, ticks, faults>>

\* Eligible without the test of the template flag
EligibleIgnoringTemplate(vm) == vm.node # ""

Eligible(vm) == vm.template = 0 /\ vm.node # ""

\* main, lines 130-135: a template or a vm without a node is passed over
SkipVm ==
    /\ pc = "vm_loop"
    /\ i <= Len(vms)
    /\ ~Eligible(vms[i])
    /\ i' = i + 1
    /\ UNCHANGED <<clock, store, pc, dry_run, now, cadences_to_create, cutoffs,
                   grouped, ci, todo, exit_code, calls, printed, listed, prev,
                   passes, ticks, faults>>

\* Expired without the skip of a name that does not parse
ExpiredUnparsedNotSkipped(name, cutoff) ==
    parse_snapshot_timestamp(name) < cutoff

\* Expired with the cutoff itself taken as expired
ExpiredInclusive(name, cutoff) ==
    /\ parse_snapshot_timestamp(name) # NoneVal
    /\ parse_snapshot_timestamp(name) <= cutoff

\* prune_snapshots, lines 95-98: the snapshot parses and is older than cutoff
Expired(name, cutoff) ==
    /\ Timestamp(name) # NoneVal
    /\ Timestamp(name) < cutoff

RECURSIVE SelectExpired(_, _)
\* prune_snapshots, lines 93-98: the names of one bucket that reach line 99
SelectExpired(snaps, cutoff) ==
    IF snaps = <<>> THEN <<>>
    ELSE IF Expired(Head(snaps), cutoff)
         THEN <<Head(snaps)>> \o SelectExpired(Tail(snaps), cutoff)
         ELSE SelectExpired(Tail(snaps), cutoff)

RECURSIVE PruneFrom(_, _, _)
PruneFrom(g, cut, k) ==
    IF k > Len(GroupedOrder) THEN <<>>
    ELSE SelectExpired(g[GroupedOrder[k]], cut[GroupedOrder[k]])
         \o PruneFrom(g, cut, k + 1)

\* main, lines 148-149: the names the pruning loops delete, in their order
PruneQueue(g, cut) == PruneFrom(g, cut, 1)

\* FetchOk with pruning begun before the creation loop: in a live pass the
\* first expired snapshot is deleted as soon as the listing is grouped
FetchOkPrunesFirst ==
    /\ pc = "vm_loop"
    /\ i <= Len(vms)
    /\ vms[i].template = 0 /\ vms[i].node # ""
    /\ LET v == vms[i].vmid
           q == PruneQueue(filter_snapshots(store[v]), cutoffs)
           l == Append(calls, [op |-> "list", vmid |-> v, name |-> "", ok |-> TRUE])
       IN  /\ listed' = [listed EXCEPT ![v] = [st |-> "ok", snaps |-> store[v]]]
           /\ grouped' = filter_snapshots(store[v])
           /\ IF q # <<>> /\ ~dry_run
              THEN /\ calls' = Append(l, [op |-> "delete", vmid |-> v,
                                          name |-> Head(q), ok |-> TRUE])
                   /\ store' = [store EXCEPT
                                   ![v] = SelectSeq(@, LAMBDA x : x # Head(q))]
              ELSE calls' = l /\ UNCHANGED store
    /\ pc' = "create"
    /\ ci' = 1
    /\ UNCHANGED <<clock, dry_run, now, cadences_to_create, cutoffs, i,
                   todo, exit_code, printed, prev, passes, ticks, faults>>

\* main, lines 137-143: snapshot.get() answers
FetchOk ==
    /\ pc = "vm_loop"
    /\ i <= Len(vms)
    /\ Eligible(vms[i])
    /\ LET v == vms[i].vmid IN
          /\ calls' = Append(calls, [op |-> "list", vmid |-> v, name |-> "", ok |-> TRUE])
          /\ listed' = [listed EXCEPT ![v] = [st |-> "ok", snaps |-> store[v]]]
          /\ grouped' = filter_snapshots(store[v])
    /\ pc' = "create"
    /\ ci' = 1
    /\ UNCHANGED <<clock, store, dry_run, now, cadences_to_create, cutoffs, i,
                   todo, exit_code, printed, prev, passes, ticks, faults>>

\* FetchFail without the try/except around snapshot.get()
FetchFailUncaught ==
    /\ pc = "vm_loop"
    /\ i <= Len(vms)
    /\ Eligible(vms[i])
    /\ faults < MaxFaults
    /\ faults' = faults + 1
    /\ calls' = Append(calls, [op |-> "list", vmid |-> vms[i].vmid, name |-> "",
                               ok |-> FALSE])
    /\ pc' = "crashed"
    /\ exit_code' = 1
    /\ UNCHANGED <<clock, store, dry_run, now, cadences_to_create, cutoffs, i,
                   grouped, ci, todo, printed, listed, prev, passes, ticks>>

\* main, lines 137-141: snapshot.get() raises; the vm is skipped
FetchFail ==
    /\ pc = "vm_loop"
    /\ i <= Len(vms)
    /\ Eligible(vms[i])
    /\ faults < MaxFaults
    /\ faults' = faults + 1
    /\ LET v == vms[i].vmid IN
          /\ calls' = Append(calls, [op |-> "list", vmid |-> v, name |-> "", ok |-> FALSE])
          /\ listed' = [listed EXCEPT ![v] = [st |-> "failed", snaps |-> <<>>]]
          /\ printed' = Append(printed, [msg |-> "warn skipping", vmid |-> v, name |-> ""])
    /\ i' = i + 1
    /\ UNCHANGED <<clock, store, pc, dry_run, now, cadences_to_create, cutoffs,
                   grouped, ci, todo, exit_code, prev, passes, ticks>>

\* the name of the snapshot create_snapshot is about to ask for
CreateName == tag_snapshot_name(cadences_to_create[ci], clock)

InCreate == pc = "create" /\ ci <= Len(cadences_to_create)

\* main, lines 145-149: after a create_snapshot that returned, the next
\* cadence or, past the last one, the pruning loops
AfterCreate ==
    /\ ci' = ci + 1
    /\ IF ci + 1 > Len(cadences_to_create)
       THEN pc' = "prune" /\ todo' = PruneQueue(grouped, cutoffs)
       ELSE UNCHANGED <<pc, todo>>

\* CreateDry without the return after the print: the call is made as well
CreateDryFallsThrough ==
    /\ pc = "create" /\ ci <= Len(cadences_to_create)
    /\ dry_run
    /\ LET v == vms[i].vmid
           n == tag_snapshot_name(cadences_to_create[ci], clock)
       IN  /\ printed' = Append(printed, [msg |-> "dry-run create", vmid |-> v,
                                          name |-> n])
           /\ store' = [store EXCEPT ![v] = Append(@, n)]
           /\ calls' = Append(calls, [op |-> "create", vmid |-> v, name |-> n,
                                      ok |-> TRUE])
    /\ ci' = ci + 1
    /\ IF ci + 1 > Len(cadences_to_create)
       THEN pc' = "prune" /\ todo' = PruneQueue(grouped, cutoffs)
       ELSE UNCHANGED <<pc, todo>>
    /\ UNCHANGED <<clock, dry_run, now, cadences_to_create, cutoffs, i, grouped,
                   exit_code, listed, prev, passes, ticks, faults>>

\* create_snapshot, lines 107-110: dry-run prints and returns
CreateDry ==
    /\ InCreate
    /\ dry_run
    /\ printed' = Append(printed, [msg |-> "dry-run create", vmid |-> vms[i].vmid,
                                   name |-> CreateName])
    /\ AfterCreate
    /\ UNCHANGED <<clock, store, dry_run, now, cadences_to_create, cutoffs, i,
                   grouped, exit_code, calls, listed, prev, passes, ticks, faults>>

Holds(v, n) == \E k \in 1..Len(store[v]) : store[v][k] = n

\* create_snapshot, lines 111-112: snapshot.post() answers; the hypervisor
\* holds the new name
CreateOk ==
    /\ InCreate
    /\ ~dry_run
    /\ LET v == vms[i].vmid
           n == CreateName
       IN  /\ ~Holds(v, n)
           /\ store' = [store EXCEPT ![v] = Append(@, n)]
           /\ calls' = Append(calls, [op |-> "create", vmid |-> v, name |-> n, ok |-> TRUE])
           /\ printed' = Append(printed, [msg |-> "Created", vmid |-> v, name |-> n])
    /\ AfterCreate
    /\ UNCHANGED <<clock, dry_run, now, cadences_to_create, cutoffs, i, grouped,
                   exit_code, listed, prev, passes, ticks, faults>>

\* main after an exception that nothing catches: traceback, exit status 1
Crash ==
    /\ pc' = "crashed"
    /\ exit_code' = 1

\* CreateRejected with a fallback: the refusal is caught and the snapshot is
\* created under the name with a suffix
CreateRejectedRenames ==
    /\ pc = "create" /\ ci <= Len(cadences_to_create)
    /\ ~dry_run
    /\ LET v == vms[i].vmid
           n == tag_snapshot_name(cadences_to_create[ci], clock)
       IN  /\ \E k \in 1..Len(store[v]) : store[v][k] = n
           /\ store' = [store EXCEPT ![v] = Append(@, n \o "-2")]
           /\ calls' = Append(calls, [op |-> "create", vmid |-> v,
                                      name |-> n \o "-2", ok |-> TRUE])
           /\ printed' = Append(printed, [msg |-> "Created", vmid |-> v,
                                          name |-> n \o "-2"])
    /\ ci' = ci + 1
    /\ IF ci + 1 > Len(cadences_to_create)
       THEN pc' = "prune" /\ todo' = PruneQueue(grouped, cutoffs)
       ELSE UNCHANGED <<pc, todo>>
    /\ UNCHANGED <<clock, dry_run, now, cadences_to_create, cutoffs, i, grouped,
                   exit_code, listed, prev, passes, ticks, faults>>

\* create_snapshot, line 111: snapshot.post() raises because the hypervisor
\* already holds the name; nothing in main catches it
CreateRejected ==
    /\ InCreate
    /\ ~dry_run
    /\ Holds(vms[i].vmid, CreateName)
    /\ calls' = Append(calls, [op |-> "create", vmid |-> vms[i].vmid,
                               name |-> CreateName, ok |-> FALSE])
    /\ Crash
    /\ UNCHANGED <<clock, store, dry_run, now, cadences_to_create, cutoffs, i,
                   grouped, ci, todo, printed, listed, prev, passes, ticks, faults>>

\* CreateFail with a retry: the exception is caught and the same cadence
\* is asked for again
CreateFailRetried ==
    /\ pc = "create" /\ ci <= Len(cadences_to_create)
    /\ ~dry_run
    /\ faults < MaxFaults
    /\ faults' = faults + 1
    /\ calls' = Append(calls, [op |-> "create", vmid |-> vms[i].vmid,
                               name |-> tag_snapshot_name(cadences_to_create[ci], clock),
                               ok |-> FALSE])
    /\ UNCHANGED <<clock, store, pc, dry_run, now, cadences_to_create, cutoffs, i,
                   grouped, ci, todo, exit_code, printed, listed, prev, passes,
                   ticks>>

\* create_snapshot, line 111: snapshot.post() raises for a fault of the
\* hypervisor; nothing in main catches it
CreateFail ==
    /\ InCreate
    /\ ~dry_run
    /\ faults < MaxFaults
    /\ faults' = faults + 1
    /\ calls' = Append(calls, [op |-> "create", vmid |-> vms[i].vmid,
                               name |-> CreateName, ok |-> FALSE])
    /\ Crash
    /\ UNCHANGED <<clock, store, dry_run, now, cadences_to_create, cutoffs, i,
                   grouped, ci, todo, printed, listed, prev, passes, ticks>>

\* the sequence s without its elements equal to x
RECURSIVE Without(_, _)
Without(s, x) ==
    IF s = <<>> THEN <<>>
    ELSE IF Head(s) = x THEN Without(Tail(s), x)
    ELSE <<Head(s)>> \o Without(Tail(s), x)

InPrune == pc = "prune" /\ todo # <<>>

\* prune_snapshots, lines 99-100: dry-run prints
PruneDry ==
    /\ InPrune
    /\ dry_run
    /\ printed' = Append(printed, [msg |-> "dry-run delete", vmid |-> vms[i].vmid,
                                   name |-> Head(todo)])
    /\ todo' = Tail(todo)
    /\ UNCHANGED <<clock, store, pc, dry_run, now, cadences_to_create, cutoffs,
                   i, grouped, ci, exit_code, calls, listed, prev, passes, ticks,
                   faults>>

\* prune_snapshots, lines 102-103: snapshot(name).delete() answers; the
\* hypervisor no longer holds the name
PruneDelete ==
    /\ InPrune
    /\ ~dry_run
    /\ LET v == vms[i].vmid
           n == Head(todo)
       IN  /\ Holds(v, n)
           /\ store' = [store EXCEPT ![v] = Without(@, n)]
           /\ calls' = Append(calls, [op |-> "delete", vmid |-> v, name |-> n, ok |-> TRUE])
           /\ printed' = Append(printed, [msg |-> "Deleted", vmid |-> v, name |-> n])
    /\ todo' = Tail(todo)
    /\ UNCHANGED <<clock, pc, dry_run, now, cadences_to_create, cutoffs, i,
                   grouped, ci, exit_code, listed, prev, passes, ticks, faults>>

\* prune_snapshots, line 102: snapshot(name).delete() raises; nothing in
\* prune_snapshots or main catches it
PruneDeleteFail ==
    /\ InPrune
    /\ ~dry_run
    /\ faults < MaxFaults
    /\ faults' = faults + 1
    /\ calls' = Append(calls, [op |-> "delete", vmid |-> vms[i].vmid,
                               name |-> Head(todo), ok |-> FALSE])
    /\ Crash
    /\ UNCHANGED <<clock, store, dry_run, now, cadences_to_create, cutoffs, i,
                   grouped, ci, todo, printed, listed, prev, passes, ticks>>

\* main, lines 148-149 and 129: every bucket is pruned; the next vm
VmDone ==
    /\ pc = "prune"
    /\ todo = <<>>
    /\ pc' = "vm_loop"
    /\ i' = i + 1
    /\ UNCHANGED <<clock, store, dry_run, now, cadences_to_create, cutoffs,
                   grouped, ci, todo, exit_code, calls, printed, listed, prev,
                   passes, ticks, faults>>

\* main, line 151 and line 155: return 0
Finish ==
    /\ pc = "vm_loop"
    /\ i > Len(vms)
    /\ pc' = "done"
    /\ exit_code' = 0
    /\ UNCHANGED <<clock, store, dry_run, now, cadences_to_create, cutoffs, i,
                   grouped, ci, todo, calls, printed, listed, prev, passes,
                   ticks, faults>>

Next ==
    \/ Tick
    \/ StartFail
    \/ StartPass
    \/ SkipVm
    \/ FetchOk
    \/ FetchFail
    \/ CreateDry
    \/ CreateOk
    \/ CreateRejected
    \/ CreateFail
    \/ PruneDry
    \/ PruneDelete
    \/ PruneDeleteFail
    \/ VmDone
    \/ Finish

Spec == Init /\ [][Next]_vars

(***************************************************************************)
(* The schedule policy on its own: main's lines 124-126 applied to the     *)
(* instants of PolicyDays consecutive days from Monday 2026-05-25, at the  *)
(* hours, minutes and seconds around the boundaries the policy tests.      *)
(***************************************************************************)
PolicyDays == 44

PolicyInstants ==
    { MkDatetime(2026, 5, 25, h, m, sec) + d * SecondsPerDay :
        d \in 0..(PolicyDays - 1), h \in {0, 1, 23}, m \in {0, 1, 59}, sec \in {0, 30} }

InitPolicy == clock \in PolicyInstants /\ InitRest

NextPolicy == StartPass

SpecPolicy == InitPolicy /\ [][NextPolicy]_vars

(***************************************************************************)
(* The naming codec on its own: create_snapshot called in dry-run for one  *)
(* cadence, the wall clock at one of the instants of CodecDays consecutive *)
(* days from each of a few dates (a leap day, the ends of a month and of a *)
(* year among them), at times from the first to the last second of the day.*)
(***************************************************************************)
CodecDays == 3

CodecInstants ==
    { MkDatetime(b[1], b[2], b[3], 0, 0, 0) + d * SecondsPerDay + sec :
        b \in { <<2026, 3, 15>>, <<2024, 2, 28>>, <<2026, 12, 30>>,
                <<1999, 12, 31>>, <<2026, 1, 9>>, <<2026, 9, 29>> },
        d \in 0..(CodecDays - 1),
        sec \in { 0, 59, 9 * 3600 + 22 * 60, 12 * 3600 + 5 * 60 + 30, 86399 } }

InitCodec ==
    /\ clock \in CodecInstants
    /\ cadences_to_create \in {<<c>> : c \in Cadences}
    /\ store = InitialStore
    /\ pc = "create"
    /\ dry_run = TRUE
    /\ now = clock
    /\ cutoffs = retention_cutoffs(clock)
    /\ i = 1
    /\ grouped = NoGroups
    /\ ci = 1
    /\ todo = <<>>
    /\ exit_code = -1
    /\ calls = <<>>
    /\ printed = <<>>
    /\ listed = NoListing
    /\ prev = [valid |-> FALSE, done |-> FALSE, dry |-> FALSE, now |-> 0,
               listed |-> NoListing, acts |-> {}, store |-> InitialStore]
    /\ passes = 1
    /\ ticks = 0
    /\ faults = 0

NextCodec == CreateDry

SpecCodec == InitCodec /\ [][NextCodec]_vars

(***************************************************************************)
(* The script under its scheduler: a live invocation at the start of each  *)
(* minute, from 2026-05-29T00:00, each ended before the next begins.  The  *)
(* hypervisor fails at most MaxFaults calls in all, so among RetryPasses   *)
(* invocations one is spared by the faults and by the one name (the hourly *)
(* snapshot of 00:00 of vm 100) that is held beforehand.                   *)
(***************************************************************************)
InitRetry == clock = RetryStart /\ InitRest

\* the scheduler starts the script at the next minute; main, lines 116-128
CronPass ==
    /\ Stopped
    /\ passes < RetryPasses
    /\ clock' = clock - (clock % 60) + 60
    /\ dry_run' = FALSE
    /\ passes' = passes + 1
    /\ prev' = Summary
    /\ now' = clock'
    /\ cadences_to_create' = should_create(clock')
    /\ cutoffs' = retention_cutoffs(clock')
    /\ pc' = "vm_loop"
    /\ i' = 1
    /\ exit_code' = -1
    /\ grouped' = NoGroups
    /\ ci' = 1
    /\ todo' = <<>>
    /\ calls' = <<>>
    /\ printed' = <<>>
    /\ listed' = NoListing
    /\ UNCHANGED <<store, ticks, faults>>

\* the scheduler starts the script at the next minute and load_config,
\* connect_proxmox or the inventory listing raises; main, lines 116-128
CronFail ==
    /\ Stopped
    /\ passes < RetryPasses
    /\ faults < MaxFaults
    /\ faults' = faults + 1
    /\ clock' = clock - (clock % 60) + 60
    /\ dry_run' = FALSE
    /\ passes' = passes + 1
    /\ prev' = Summary
    /\ pc' = "fatal"
    /\ exit_code' = 1
    /\ now' = 0
    /\ cadences_to_create' = <<>>
    /\ cutoffs' = NoCutoffs
    /\ i' = 1
    /\ grouped' = NoGroups
    /\ ci' = 1
    /\ todo' = <<>>
    /\ calls' = <<>>
    /\ printed' = <<>>
    /\ listed' = NoListing
    /\ UNCHANGED <<store, ticks>>

NextRetry ==
    \/ CronPass
    \/ CronFail
    \/ SkipVm
    \/ FetchOk
    \/ FetchFail
    \/ CreateOk
    \/ CreateRejected
    \/ CreateFail
    \/ PruneDelete
    \/ PruneDeleteFail
    \/ VmDone
    \/ Finish

\* the scheduler goes on invoking and an invocation goes on running
SpecRetry == InitRetry /\ [][NextRetry]_vars /\ WF_vars(NextRetry)

(***************************************************************************)
(* Vocabulary of the properties                                            *)
(***************************************************************************)
VmIndex(v) == CHOOSE k \in 1..Len(vms) : vms[k].vmid = v

\* the invocation listed the inventory and has ended, one way or the other
PassEnded == pc \in {"done", "crashed"}

IssuedList(v) ==
    \E k \in 1..Len(calls) : calls[k].op = "list" /\ calls[k].vmid = v

IssuedCreate(v, c) ==
    \E k \in 1..Len(calls) :
        calls[k].op = "create" /\ calls[k].vmid = v /\ BucketOf(calls[k].name) = c

IssuedDelete(v, n) ==
    \E k \in 1..Len(calls) :
        calls[k].op = "delete" /\ calls[k].vmid = v /\ calls[k].name = n

\* a create or delete call for v raised
FailedAction(v) ==
    \E k \in 1..Len(calls) :
        calls[k].op \in {"create", "delete"} /\ calls[k].vmid = v /\ ~calls[k].ok

\* the listed snapshots of v the plan of this invocation prunes
PlannedDeletes(v) ==
    {n \in SeqRange(listed[v].snaps) :
        BucketOf(n) # "" /\ Expired(n, cutoffs[BucketOf(n)])}

\* every create and delete the plan holds for v was issued
PlanIssued(v) ==
    /\ \A c \in SeqRange(cadences_to_create) : IssuedCreate(v, c)
    /\ \A n \in PlannedDeletes(v) : IssuedDelete(v, n)

\* a well-formed automated name: auto-<cadence>-<stamp>, the stamp parsing
\* in the format of the cadence
StampAfter(n, c) == SubSeq(n, Len("auto-" \o c \o "-") + 1, Len(n))

WellFormedAs(n, c) ==
    /\ startswith(n, "auto-" \o c \o "-")
    /\ IF c = "hourly" THEN strptime_minute(StampAfter(n, c)) # NoneVal
       ELSE strptime_day(StampAfter(n, c)) # NoneVal

\* <<cadence, instant>> of a well-formed automated name, <<"", NoneVal>> of
\* any other name
DecodeName(n) ==
    IF \E c \in Cadences : WellFormedAs(n, c)
    THEN LET c == CHOOSE d \in Cadences : WellFormedAs(n, d) IN
         <<c, IF c = "hourly" THEN strptime_minute(StampAfter(n, c))
              ELSE strptime_day(StampAfter(n, c))>>
    ELSE <<"", NoneVal>>

DecodedUniverse == [n \in NameUniverse |-> DecodeName(n)]

Decoded(n) == IF n \in NameUniverse THEN DecodedUniverse[n] ELSE DecodeName(n)

WellFormedAuto(n) == Decoded(n)[1] # ""

\* the snapshots each workload holds at first under a name that is not a
\* well-formed automated name
ForeignAtFirst ==
    [v \in VmIds |-> {n \in SeqRange(InitialStore[v]) : ~WellFormedAuto(n)}]

\* a template, or a workload without a placement node
Ineligible(vm) == vm.template # 0 \/ vm.node = ""

(***************************************************************************)
(* C1.  When a create or delete call fails for a workload, the pass still  *)
(* issues every other create and delete call planned for that workload:    *)
(* one create per due cadence and one delete per prunable listed snapshot. *)
(* Stated of an ended pass.  The code violates it: the exception is not    *)
(* caught.                                                                 *)
(***************************************************************************)
C1_FailedActionDoesNotAbortWorkload ==
    PassEnded => \A v \in VmIds : FailedAction(v) => PlanIssued(v)

(***************************************************************************)
(* C2.  A failed create or delete call on one workload does not keep the   *)
(* pass from the eligible workloads after it in the inventory: each has    *)
(* its snapshots listed and, when the listing answers, its plan issued.    *)
(* The code violates it.                                                   *)
(***************************************************************************)
C2_FailedActionDoesNotAbortFleet ==
    PassEnded =>
        \A k \in 1..Len(vms) : FailedAction(vms[k].vmid) =>
            \A m \in (k + 1)..Len(vms) : Eligible(vms[m]) =>
                /\ IssuedList(vms[m].vmid)
                /\ listed[vms[m].vmid].st = "ok" => PlanIssued(vms[m].vmid)

(***************************************************************************)
(* C3.  When the snapshot listing of a workload fails, no create and no    *)
(* delete is issued or announced for that workload, the process goes on    *)
(* to the workloads after it, and a pass that completes has listed every   *)
(* eligible workload.                                                      *)
(***************************************************************************)
C3_ListFailureSkipsWorkload ==
    /\ \A k \in 1..Len(calls) : (calls[k].op = "list" /\ ~calls[k].ok) =>
          /\ \A m \in 1..Len(calls) :
                calls[m].vmid = calls[k].vmid => calls[m].op = "list"
          /\ \A m \in 1..Len(printed) :
                printed[m].vmid = calls[k].vmid => printed[m].msg = "warn skipping"
          /\ k = Len(calls) =>
                pc \in {"vm_loop", "done"} /\ i > VmIndex(calls[k].vmid)
    /\ pc = "done" => \A m \in 1..Len(vms) : Eligible(vms[m]) => IssuedList(vms[m].vmid)

\* the listing of vm 100 failed and the pass went on to list vm 103, act on
\* it and complete
C3_Witness ==
    /\ pc = "done"
    /\ listed["100"].st = "failed"
    /\ listed["103"].st = "ok"
    /\ \E k \in 1..Len(calls) : calls[k].op = "delete" /\ calls[k].vmid = "103"

(***************************************************************************)
(* C4.  Once the inventory is listed the pass runs to completion and the   *)
(* process exits with status 0 whatever listing, create or delete call     *)
(* fails: a non-zero exit status comes from a failure of configuration,    *)
(* connection or inventory only.  The code violates it.                    *)
(***************************************************************************)
C4_PassCompletesWithExitZero ==
    /\ PassEnded => exit_code = 0
    /\ exit_code = 1 => pc = "fatal"

C6_IneligibleWorkloadsUntouched ==
    /\ \A k \in 1..Len(calls) : ~Ineligible(vms[VmIndex(calls[k].vmid)])
    /\ \A k \in 1..Len(printed) : ~Ineligible(vms[VmIndex(printed[k].vmid)])
    /\ \A k \in 1..Len(vms) :
          Ineligible(vms[k]) => store[vms[k].vmid] = InitialStore[vms[k].vmid]

\* a live pass completed and pruned, while the template 101 and the
\* unplaced 102 hold automated snapshots older than their cutoffs
C6_Witness ==
    /\ pc = "done"
    /\ ~dry_run
    /\ \E k \in 1..Len(calls) : calls[k].op = "delete" /\ calls[k].ok
    /\ \E k \in 1..Len(calls) : calls[k].op = "create" /\ calls[k].ok
    /\ parse_snapshot_timestamp(store["101"][1]) < cutoffs["daily"]
    /\ parse_snapshot_timestamp(store["102"][1]) < cutoffs["hourly"]

(***************************************************************************)
(* C7.  For each workload whose pruning has run to its end, the listed     *)
(* snapshots whose deletion was requested (issued, or announced in         *)
(* dry-run) are exactly the well-formed automated ones whose decoded       *)
(* instant is strictly earlier than now minus the retention window of      *)
(* their cadence; while pruning is under way, or after a call that raised  *)
(* cut it short, the requested ones and the ones still queued are exactly  *)
(* that set; and at no moment is deletion requested for another one, so a  *)
(* snapshot at the cutoff or later is retained.                            *)
(***************************************************************************)
\* the retention windows of the reference policy, in days
WindowDays(c) ==
    CASE c = "hourly" -> 3 [] c = "daily" -> 14 [] c = "weekly" -> 56 [] c = "monthly" -> 730

StrictlyOlder(v) ==
    {n \in SeqRange(listed[v].snaps) :
        /\ WellFormedAuto(n)
        /\ Decoded(n)[2] < now - WindowDays(Decoded(n)[1]) * 86400}

DeletionRequested(v) ==
    {a[3] : a \in {b \in ActionsOf(dry_run, calls, printed) :
                        b[1] = "delete" /\ b[2] = v}}

PruningComplete(k) ==
    \/ k < i
    \/ k = i /\ pc = "prune" /\ todo = <<>>

\* the pruning loops of vms[k] are under way, or were cut short by a call
\* that raised
PruningBegun(k) ==
    k = i /\ pc \in {"prune", "crashed"} /\ ci > Len(cadences_to_create)

C7_PrunesExactlyStrictlyOlder ==
    \A k \in 1..Len(vms) :
        listed[vms[k].vmid].st = "ok" =>
            /\ DeletionRequested(vms[k].vmid) \subseteq StrictlyOlder(vms[k].vmid)
            /\ PruningComplete(k) =>
                  DeletionRequested(vms[k].vmid) = StrictlyOlder(vms[k].vmid)
            /\ PruningBegun(k) =>
                  DeletionRequested(vms[k].vmid) \cup SeqRange(todo)
                      = StrictlyOlder(vms[k].vmid)

\* a live pass planned at 2026-06-01T00:00:00 completed: vm 100 lost the
\* hourly snapshot one minute older than the cutoff and keeps the one whose
\* instant is the cutoff, vm 103 keeps the daily and the monthly snapshot
\* at their cutoffs
C7_Witness ==
    /\ pc = "done"
    /\ ~dry_run
    /\ parse_snapshot_timestamp("auto-hourly-20260529-0000") = cutoffs["hourly"]
    /\ parse_snapshot_timestamp("auto-daily-20260518") = cutoffs["daily"]
    /\ parse_snapshot_timestamp("auto-monthly-20240601") = cutoffs["monthly"]
    /\ IssuedDelete("100", "auto-hourly-20260528-2359")
    /\ ~Holds("100", "auto-hourly-20260528-2359")
    /\ Holds("100", "auto-hourly-20260529-0000")
    /\ Holds("103", "auto-daily-20260518")
    /\ Holds("103", "auto-monthly-20240601")

(***************************************************************************)
(* C8.  With dry-run enabled no step issues a create or a delete call and  *)
(* no step changes the snapshots any workload holds.                       *)
(***************************************************************************)
NoMutatingCall(cs) == \A k \in 1..Len(cs) : cs[k].op = "list"

C8_DryRunMutatesNothing ==
    [][dry_run' => (store' = store /\ NoMutatingCall(calls'))]_vars

\* a dry-run pass completed after announcing creations and deletions
C8_Witness ==
    /\ pc = "done"
    /\ dry_run
    /\ \E k \in 1..Len(printed) : printed[k].msg = "dry-run create"
    /\ \E k \in 1..Len(printed) : printed[k].msg = "dry-run delete"
    /\ store = InitialStore

(***************************************************************************)
(* C9.  A dry-run pass and a live pass on the same inputs (the same plan   *)
(* instant, the same inventory, the same listing for every workload either *)
(* of them listed, no listing failing) have the same set of actions: what  *)
(* the dry-run announces is what the live pass issues.  Stated of two      *)
(* consecutive ended passes.  The code violates it: a failing call ends    *)
(* the live pass before the rest of its plan (C1).                         *)
(***************************************************************************)
SameInputs ==
    /\ prev.now = now
    /\ \A v \in VmIds :
          /\ prev.listed[v].st # "failed"
          /\ listed[v].st # "failed"
          /\ (prev.listed[v].st = "ok" /\ listed[v].st = "ok")
                => prev.listed[v].snaps = listed[v].snaps

C9_DryRunPlanEqualsLiveActions ==
    (PassEnded /\ prev.valid /\ prev.dry # dry_run /\ SameInputs)
        => prev.acts = ActionsOf(dry_run, calls, printed)

(***************************************************************************)
(* C10.  The due cadences of every instant now: hourly always, daily iff   *)
(* the minute is 0, weekly iff now is a Monday at 00:00, monthly iff now   *)
(* is the 1st of the month at 00:00; nothing else and nothing twice.       *)
(***************************************************************************)
C10_DueCadences ==
    pc = "vm_loop" =>
        LET due == SeqRange(cadences_to_create) IN
        /\ due \subseteq Cadences
        /\ Cardinality(due) = Len(cadences_to_create)
        /\ "hourly" \in due
        /\ "daily" \in due <=> Minute(now) = 0
        /\ "weekly" \in due <=> (Weekday(now) = 0 /\ Hour(now) = 0 /\ Minute(now) = 0)
        /\ "monthly" \in due <=> (Day(now) = 1 /\ Hour(now) = 0 /\ Minute(now) = 0)

\* the plan of Monday 2026-06-01T00:00 holds the four cadences
C10_Witness ==
    /\ pc = "vm_loop"
    /\ now = MkDatetime(2026, 6, 1, 0, 0, 30)
    /\ cadences_to_create = <<"hourly", "daily", "weekly", "monthly">>

(***************************************************************************)
(* C11.  The due cadences in three cases: at 00:00 of a Monday that is     *)
(* the 1st of the month, exactly hourly, daily, weekly and monthly; at     *)
(* minute 0 of any hour of a day that is neither a Monday nor the 1st,     *)
(* exactly hourly and daily; at a minute other than 0, exactly hourly.     *)
(***************************************************************************)
Due == SeqRange(cadences_to_create)

MondayTheFirst(t) == Weekday(t) = 0 /\ Day(t) = 1

PlainDay(t) == Weekday(t) # 0 /\ Day(t) # 1

C11_DueCadenceScenarios ==
    pc = "vm_loop" =>
        /\ (MondayTheFirst(now) /\ Hour(now) = 0 /\ Minute(now) = 0)
              => Due = {"hourly", "daily", "weekly", "monthly"}
        /\ (PlainDay(now) /\ Minute(now) = 0) => Due = {"hourly", "daily"}
        /\ Minute(now) # 0 => Due = {"hourly"}

\* C11 as the claim words it: minute 0 of a Monday that is the 1st, at
\* whatever hour, has the four cadences due.  The code violates it at 01:00.
C11_AsClaimed ==
    pc = "vm_loop" =>
        /\ (MondayTheFirst(now) /\ Minute(now) = 0)
              => Due = {"hourly", "daily", "weekly", "monthly"}
        /\ (PlainDay(now) /\ Minute(now) = 0) => Due = {"hourly", "daily"}
        /\ Minute(now) # 0 => Due = {"hourly"}

\* the plan of Monday 2026-06-01T00:00:00 holds the four cadences
C11_Witness ==
    /\ pc = "vm_loop"
    /\ now = MkDatetime(2026, 6, 1, 0, 0, 0)
    /\ MondayTheFirst(now)
    /\ Due = {"hourly", "daily", "weekly", "monthly"}

(***************************************************************************)
(* C17.  For the plan instant now, the cutoffs are now minus 3 days        *)
(* (hourly), 14 days (daily), 8 weeks (weekly) and 730 days (monthly),     *)
(* and cutoff(monthly) < cutoff(weekly) < cutoff(daily) < cutoff(hourly).  *)
(***************************************************************************)
C17_CutoffMonotonicity ==
    pc = "vm_loop" =>
        /\ cutoffs["hourly"] = now - 3 * 86400
        /\ cutoffs["daily"] = now - 14 * 86400
        /\ cutoffs["weekly"] = now - 8 * 7 * 86400
        /\ cutoffs["monthly"] = now - 730 * 86400
        /\ cutoffs["monthly"] < cutoffs["weekly"]
        /\ cutoffs["weekly"] < cutoffs["daily"]
        /\ cutoffs["daily"] < cutoffs["hourly"]

\* the plan of 2026-06-01T23:59:30: the cutoffs on the calendar
C17_Witness ==
    /\ pc = "vm_loop"
    /\ now = MkDatetime(2026, 6, 1, 23, 59, 30)
    /\ cutoffs["hourly"] = MkDatetime(2026, 5, 29, 23, 59, 30)
    /\ cutoffs["daily"] = MkDatetime(2026, 5, 18, 23, 59, 30)
    /\ cutoffs["weekly"] = MkDatetime(2026, 4, 6, 23, 59, 30)
    /\ cutoffs["monthly"] = MkDatetime(2024, 6, 1, 23, 59, 30)

(***************************************************************************)
(* C12.  The name create_snapshot makes for a cadence at an instant        *)
(* decodes to that cadence (the bucket filter_snapshots puts it in) and to *)
(* the instant truncated to the minute for hourly, to the day at 00:00     *)
(* for daily, weekly and monthly.                                          *)
(***************************************************************************)
Truncated(c, t) == IF c = "hourly" THEN t - (t % 60) ELSE t - (t % 86400)

C12_RoundTrip ==
    \A k \in 1..Len(printed) :
        printed[k].msg = "dry-run create" =>
            /\ BucketOf(printed[k].name) = cadences_to_create[k]
            /\ parse_snapshot_timestamp(printed[k].name)
                  = Truncated(cadences_to_create[k], clock)

\* monthly at 2026-03-15T09:22 is auto-monthly-20260315 and decodes to
\* 2026-03-15T00:00
C12_Witness ==
    /\ clock = MkDatetime(2026, 3, 15, 9, 22, 0)
    /\ cadences_to_create = <<"monthly">>
    /\ Len(printed) = 1
    /\ printed[1].name = "auto-monthly-20260315"
    /\ parse_snapshot_timestamp(printed[1].name) = MkDatetime(2026, 3, 15, 0, 0, 0)

(***************************************************************************)
(* C13.  parse_snapshot_timestamp returns None, and does not raise, for    *)
(* every name a workload lists that lacks the auto- marker, has fewer than *)
(* three fields, carries a cadence tag other than the four, or has a stamp *)
(* that is not YYYYMMDD-HHMM (hourly) or YYYYMMDD (the others) in digits.  *)
(* The code violates it: the tag is not tested and strptime takes          *)
(* one-digit fields.                                                       *)
(***************************************************************************)
AllDigits(s, a, b) == \A k \in a..b : IsDigit(Char(s, k))

InShape(stamp, c) ==
    IF c = "hourly"
    THEN /\ Len(stamp) = 13
         /\ AllDigits(stamp, 1, 8)
         /\ Char(stamp, 9) = "-"
         /\ AllDigits(stamp, 10, 13)
    ELSE Len(stamp) = 8 /\ AllDigits(stamp, 1, 8)

NotAutomated(n) ==
    \/ ~startswith(n, "auto-")
    \/ Len(split(n)) < 3
    \/ split(n)[2] \notin Cadences
    \/ ~InShape(join(SubSeq(split(n), 3, Len(split(n)))), split(n)[2])

C13_DecodeRejects ==
    \A v \in VmIds : \A n \in SeqRange(listed[v].snaps) :
        NotAutomated(n) => parse_snapshot_timestamp(n) = NoneVal

(***************************************************************************)
(* C14.  Over any sequence of passes, the hypervisor rejecting the         *)
(* creation of a name it holds, no workload holds two snapshots of the     *)
(* same cadence among daily, weekly and monthly whose names carry the      *)
(* same calendar day: a creation repeated on the same day is rejected and  *)
(* adds nothing.                                                           *)
(***************************************************************************)
\* the eight digits of the day in the name of a bucketed snapshot, "" when
\* the stamp does not begin with eight digits
DayKeyOf(n) ==
    LET c  == BucketOf(n)
        st == StampAfter(n, c)
    IN  IF c # "" /\ Len(st) >= 8 /\ AllDigits(st, 1, 8) THEN SubSeq(st, 1, 8)
        ELSE ""

DayKeyUniverse == [n \in NameUniverse |-> <<BucketOf(n), DayKeyOf(n)>>]

\* <<cadence, day>> of a name
DayKey(n) ==
    IF n \in NameUniverse THEN DayKeyUniverse[n] ELSE <<BucketOf(n), DayKeyOf(n)>>

C14_OnePerDayAndCadence ==
    \A v \in VmIds : \A k, m \in 1..Len(store[v]) :
        (/\ k < m
         /\ DayKey(store[v][k])[1] \in {"daily", "weekly", "monthly"}
         /\ DayKey(store[v][k])[2] # "")
            => DayKey(store[v][k]) # DayKey(store[v][m])

\* a live pass planned at 2026-06-01T00:00 created the hourly snapshot of
\* 00:01 for vm 100 and was refused the daily one, which vm 100 holds since
\* the pass before
C14_Witness ==
    /\ pc = "crashed"
    /\ faults = 0
    /\ Len(calls) = 3
    /\ calls[2] = [op |-> "create", vmid |-> "100",
                   name |-> "auto-hourly-20260601-0001", ok |-> TRUE]
    /\ calls[3] = [op |-> "create", vmid |-> "100",
                   name |-> "auto-daily-20260601", ok |-> FALSE]
    /\ Holds("100", "auto-daily-20260601")

(***************************************************************************)
(* C15.  A live pass run at the instant of the live pass before it, which  *)
(* completed with every snapshot listing answered, leaves the snapshots    *)
(* of every workload as that pass left them: it creates none and deletes   *)
(* none.  Both passes read the wall clock at that one instant.             *)
(***************************************************************************)
\* this invocation and the one before it are live, the one before it
\* completed, and every clock read of the two returned the same instant
RepeatedLivePass ==
    /\ prev.valid
    /\ prev.done
    /\ ~prev.dry
    /\ ~dry_run
    /\ prev.now = now
    /\ clock = now

NoListingFailed(ls) == \A v \in VmIds : ls[v].st # "failed"

C15_RepeatChangesNothing ==
    (RepeatedLivePass /\ NoListingFailed(prev.listed)) => store = prev.store

\* C15 as the claim words it, of any first pass that completed.  The code
\* violates it after a first pass that skipped a workload whose listing
\* failed.
C15_AsClaimed ==
    (PassEnded /\ RepeatedLivePass) => store = prev.store

\* a live pass created and deleted snapshots and completed; a second one at
\* the same instant listed vm 100, asked for the hourly name again, was
\* refused and ended
C15_Witness ==
    /\ RepeatedLivePass
    /\ NoListingFailed(prev.listed)
    /\ \E a \in prev.acts : a[1] = "create"
    /\ \E a \in prev.acts : a[1] = "delete"
    /\ pc = "crashed"
    /\ faults = 0
    /\ Len(calls) = 2
    /\ calls[2].op = "create" /\ ~calls[2].ok
    /\ store = prev.store
    /\ store # InitialStore

(***************************************************************************)
(* C18.  In a pass, no create is issued or announced for a workload after  *)
(* a delete was issued or announced for it, every name deleted is a name   *)
(* of the listing taken before the creations, and no name created in the   *)
(* pass is deleted in it.                                                  *)
(***************************************************************************)
C18_CreateBeforeDelete ==
    /\ \A k, m \in 1..Len(calls) :
          (k < m /\ calls[k].op = "delete" /\ calls[m].op = "create")
              => calls[k].vmid # calls[m].vmid
    /\ \A k, m \in 1..Len(printed) :
          (k < m /\ printed[k].msg \in {"dry-run delete", "Deleted"}
                 /\ printed[m].msg \in {"dry-run create", "Created"})
              => printed[k].vmid # printed[m].vmid
    /\ \A a \in ActionsOf(dry_run, calls, printed) :
          a[1] = "delete" =>
              /\ a[3] \in SeqRange(listed[a[2]].snaps)
              /\ <<"create", a[2], a[3]>> \notin ActionsOf(dry_run, calls, printed)

\* a live pass planned at 2026-06-01T00:00 completed: for vm 100 the four
\* creations, then the deletions
C18_Witness ==
    /\ pc = "done"
    /\ ~dry_run
    /\ Len(cadences_to_create) = 4
    /\ Len(calls) > 6
    /\ \A k \in 2..5 : calls[k].op = "create" /\ calls[k].vmid = "100" /\ calls[k].ok
    /\ calls[6].op = "delete" /\ calls[6].vmid = "100" /\ calls[6].ok

(***************************************************************************)
(* C19.  Every name a pass creates or announces is the name the codec      *)
(* makes of a due cadence and the plan instant now of the pass.  The code  *)
(* violates it: tag_snapshot_name reads the wall clock again.              *)
(***************************************************************************)
PlanNames == {tag_snapshot_name(c, now) : c \in SeqRange(cadences_to_create)}

C19_NamesFromPlanInstant ==
    \A a \in ActionsOf(dry_run, calls, printed) :
        a[1] = "create" => a[3] \in PlanNames

(***************************************************************************)
(* C20.  In a pass, each workload is listed at most once, at most one      *)
(* create call is issued for it per cadence, none for a cadence that is    *)
(* not due, and at most one delete call per name; so no call that failed   *)
(* is issued again.                                                        *)
(***************************************************************************)
SameAction(a, b) ==
    /\ a.op = b.op
    /\ a.vmid = b.vmid
    /\ IF a.op = "create" THEN BucketOf(a.name) = BucketOf(b.name)
       ELSE a.name = b.name

C20_EachActionAtMostOnce ==
    /\ \A k, m \in 1..Len(calls) : k < m => ~SameAction(calls[k], calls[m])
    /\ \A k \in 1..Len(calls) :
          calls[k].op = "create" => BucketOf(calls[k].name) \in SeqRange(cadences_to_create)

\* a live pass planned at 2026-06-01T00:00 created four snapshots for vm 100
\* and ended at a delete call that failed
C20_Witness ==
    /\ pc = "crashed"
    /\ faults = 1
    /\ Len(calls) = 6
    /\ \A k \in 2..5 : calls[k].op = "create" /\ calls[k].ok
    /\ calls[6].op = "delete" /\ ~calls[6].ok
    /\ Holds("100", calls[6].name)

(***************************************************************************)
(* C16.  Under the scheduler, the hypervisor's failures being transient,   *)
(* every eligible workload eventually holds an hourly snapshot created by  *)
(* the script: a workload a pass did not reach, or whose create failed,    *)
(* is served by a later pass.                                              *)
(***************************************************************************)
\* v holds an hourly snapshot it did not hold at first
HourlyCreated(v) ==
    \E k \in 1..Len(store[v]) :
        /\ BucketOf(store[v][k]) = "hourly"
        /\ store[v][k] \notin SeqRange(InitialStore[v])

AllHourlyCreated ==
    \A k \in 1..Len(vms) : Eligible(vms[k]) => HourlyCreated(vms[k].vmid)

====
